---- MODULE Spec2Model ----
(***************************************************************************)
(* Model of lightpath/ui/widgets.py: one row widget (InactiveRow or        *)
(* LightRow) bound to one device.  The device, its signals and its         *)
(* subscription registry are the environment; the row's label, colours,    *)
(* buttons and logging are the program state.                              *)
(***************************************************************************)
EXTENDS Integers, Sequences, FiniteSets, TLC

\* ------------------------------------------------------------------ bounds
MaxLogged == 2

\* ------------------------------------------------- DeviceState (lightpath.path)
Removed == 0
Inserted == 1
Unknown == 2
Disconnected == 3
PartiallyInserted == 4
Error == 5

DeviceState == {Removed, Inserted, Unknown, Disconnected, PartiallyInserted, Error}

\* DeviceState(v).name, the text update_state puts on the label
StateName(v) ==
    CASE v = Removed -> "Removed"
      [] v = Inserted -> "Inserted"
      [] v = Unknown -> "Unknown"
      [] v = Disconnected -> "Disconnected"
      [] v = PartiallyInserted -> "Disconnected"
      [] v = Error -> "Error"

\* values a device signal read can give: True, False, None, or no attribute
SignalValues == {"True", "False", "None", "Absent"}

\* find_device_state(device): the state classification of lightpath.path
find_device_state_loose(ins, rem, err) ==
    IF err THEN Error
    ELSE IF ins \in {"None", "Absent"} THEN Disconnected
    ELSE IF ins = "True" /\ rem = "True" THEN Error
    ELSE IF ins = "True" THEN Inserted
    ELSE IF rem = "True" THEN Removed
    ELSE Unknown

find_device_state(ins, rem, err) ==
    IF err THEN Error
    ELSE IF ins \in {"None", "Absent"} \/ rem \in {"None", "Absent"} THEN Disconnected
    ELSE IF ins = "True" /\ rem = "True" THEN Error
    ELSE IF ins = "True" /\ rem = "False" THEN Inserted
    ELSE IF ins = "False" /\ rem = "True" THEN Removed
    ELSE Unknown

\* ------------------------------------------------------------ colour table
QColor(r, g, b) == [red |-> r, green |-> g, blue |-> b]

state_colors_short ==
    << QColor(124, 252, 0), QColor(255, 0, 0), QColor(255, 215, 0),
       QColor(255, 215, 0), QColor(255, 0, 255) >>

state_colors_merged ==
    << QColor(124, 252, 0), QColor(255, 0, 0), QColor(255, 215, 0),
       QColor(255, 0, 255), QColor(255, 0, 255), QColor(255, 0, 255) >>

state_colors ==
    << QColor(124, 252, 0),     \* Removed
       QColor(255, 0, 0),       \* Inserted
       QColor(255, 215, 0),     \* Unknown
       QColor(255, 215, 0),     \* Disconnected
       QColor(255, 0, 255),     \* Disconnected
       QColor(255, 0, 255) >>   \* Error

\* state_colors[value]: Python indexes from 0, a sequence from 1; an index
\* outside the table raises IndexError
color_lookup(value) ==
    IF value + 1 \in DOMAIN state_colors
    THEN [raised |-> FALSE, color |-> state_colors[value + 1]]
    ELSE [raised |-> TRUE, color |-> QColor(0, 0, 0)]

\* the colour part of a stylesheet, 'rgb(r, g, b)'
to_stylesheet_color(color) == << color.red, color.green, color.blue >>

\* ------------------------------------------------------------------ symbols
NoIcon == "<no _icon attribute>"
IconValues == {"fa.bolt", ""}
DeviceIcons == {NoIcon} \cup IconValues
\* names qtawesome can load
LoadableIcons == {"fa.square", "fa.bolt"}

AttributeError == "AttributeError"

\* getattr(device, '_icon')
getattr_icon(icon) == IF icon = NoIcon THEN AttributeError ELSE icon

symbol_for_device_falsy(icon) ==
    IF getattr_icon(icon) \in {AttributeError, ""} THEN "fa.square"
    ELSE getattr_icon(icon)

symbol_for_device(icon) ==
    IF getattr_icon(icon) = AttributeError THEN "fa.square"
    ELSE getattr_icon(icon)

\* ------------------------------------------------------------------- state
VARIABLES
    \* the device
    inserted, removed, read_error,   \* the two signals and whether reading them raises
    has_insert, has_remove,          \* hasattr(device, 'insert' / 'remove')
    icon,                            \* the device's _icon attribute
    subs,                            \* registrations of update_state on the device
    sub_result,                      \* outcome of the subscribe call: "none", "ok", "raised"
    sub_calls, sub_run,              \* subscribe calls made, and the run= argument given
    unsub_calls,                     \* device.clear_sub calls made
    device_cmd,                      \* last action the device accepted
    \* the row
    kind,                            \* "none", "InactiveRow", "LightRow"
    phase,                           \* "none", "live", "torn"
    state_label_text, state_label_color,
    symbol, drawing_color,           \* device_drawing.symbol and its pixmap colour
    insert_enabled, remove_enabled,
    last_state,
    sub_errors, action_errors,       \* logger.error calls made
    escaped,                         \* the widget operation an exception escaped from
    last_args                        \* arguments of the last notification

device_vars == << inserted, removed, read_error, has_insert, has_remove, icon >>
registry_vars == << subs, sub_result, sub_calls, sub_run, unsub_calls >>
display_vars == << state_label_text, state_label_color, symbol, drawing_color,
                   insert_enabled, remove_enabled, last_state >>
log_vars == << sub_errors, action_errors >>
vars == << inserted, removed, read_error, has_insert, has_remove, icon,
           subs, sub_result, sub_calls, sub_run, unsub_calls, device_cmd,
           kind, phase, state_label_text, state_label_color, symbol,
           drawing_color, insert_enabled, remove_enabled, last_state,
           sub_errors, action_errors, escaped, last_args >>

\* a row attribute that has not been assigned yet
NoSymbol == "unset"
NoState == -1
NoPixmap == QColor(-1, -1, -1)
NotifyArgs == {"no args", "value=removed"}
\* the callback the row registers
Callback == "update_state"

\* ------------------------------------------------------------------- Init
\* A device exists, no row has been built for it yet.
DeviceInit ==
    /\ inserted \in SignalValues
    /\ removed \in SignalValues
    /\ read_error \in BOOLEAN
    /\ has_insert \in BOOLEAN
    /\ has_remove \in BOOLEAN
    /\ icon \in DeviceIcons
    /\ device_cmd = "none"

Init ==
    /\ DeviceInit
    /\ subs = {}
    /\ sub_result = "none"
    /\ sub_calls = 0
    /\ sub_run = FALSE
    /\ unsub_calls = 0
    /\ kind = "none"
    /\ phase = "none"
    /\ state_label_text = ""
    /\ state_label_color = << 0, 0, 0 >>
    /\ symbol = NoSymbol
    /\ drawing_color = NoPixmap
    /\ insert_enabled \in BOOLEAN      \* as device.ui declares the buttons
    /\ remove_enabled \in BOOLEAN
    /\ last_state = NoState
    /\ sub_errors = 0
    /\ action_errors = 0
    /\ escaped = "none"
    /\ last_args = "none"

\* --------------------------------------------------------- the row's display
\* The display fields of the row as one value, and their assignment.
Display ==
    [ text |-> state_label_text, color |-> state_label_color,
      symbol |-> symbol, pixmap |-> drawing_color,
      insert |-> insert_enabled, remove |-> remove_enabled,
      last |-> last_state, raised |-> FALSE ]

SetDisplay(d) ==
    /\ state_label_text' = d.text
    /\ state_label_color' = d.color
    /\ symbol' = d.symbol
    /\ drawing_color' = d.pixmap
    /\ insert_enabled' = d.insert
    /\ remove_enabled' = d.remove
    /\ last_state' = d.last

InactiveRow_display_gold(d) ==
    [d EXCEPT !.text = "Disconnected",
              !.color = << 255, 215, 0 >>,
              !.symbol = symbol_for_device(icon)]

\* InactiveRow.__init__: the labels and the DeviceWidget
InactiveRow_display(d) ==
    [d EXCEPT !.text = "Disconnected",
              !.color = << 255, 0, 255 >>,
              !.symbol = symbol_for_device(icon)]

\* DeviceWidget.setColor: the pixmap is replaced only when the icon loads
setColor(d, color) ==
    IF d.symbol \in LoadableIcons THEN [d EXCEPT !.pixmap = color] ELSE d

\* the button policy of update_state
insert_policy_swapped(st) == st # Removed /\ has_insert
insert_policy(st) == st # Inserted /\ has_insert
remove_policy(st) == st # Removed /\ has_remove

\* LightRow.update_state from the label on, for the state st just found
show_state(d, st) ==
    LET named == [d EXCEPT !.last = st, !.text = StateName(st)]
        found == color_lookup(st)
        color == found.color
    IN  IF found.raised
        THEN [named EXCEPT !.raised = TRUE]
        ELSE [setColor([named EXCEPT !.color = to_stylesheet_color(color)], color)
                 EXCEPT !.insert = insert_policy(st),
                        !.remove = remove_policy(st)]

\* LightRow.update_state(*args, **kwargs) applied to display d
update_state_sticky(d, args) ==
    IF d.last = Error THEN d
    ELSE show_state(d, find_device_state(inserted, removed, read_error))

update_state(d, args) ==
    show_state(d, find_device_state(inserted, removed, read_error))

\* ---------------------------------------------------------------- actions
\* InactiveRow(device)
InactiveRow_init ==
    /\ phase = "none"
    /\ kind' = "InactiveRow"
    /\ phase' = "live"
    /\ SetDisplay(InactiveRow_display(Display))
    /\ UNCHANGED << device_vars, registry_vars, device_cmd, log_vars, escaped, last_args >>

\* the run= argument LightRow.__init__ gives to subscribe
subscribe_run == FALSE

\* the except clause around subscribe: the error is logged, the display is
\* left as InactiveRow.__init__ set it
on_subscribe_error_refresh(d) == update_state(d, "no args")
on_subscribe_error(d) == d

\* LightRow(device): InactiveRow.__init__, the button connections, then the
\* subscription, which the device accepts or refuses
LightRow_init ==
    /\ phase = "none"
    /\ kind' = "LightRow"
    /\ phase' = "live"
    /\ sub_calls' = sub_calls + 1
    /\ sub_run' = subscribe_run
    /\ \E ok \in BOOLEAN :
         IF ok
         THEN /\ subs' = subs \cup {Callback}
              /\ sub_result' = "ok"
              /\ sub_errors' = sub_errors
              /\ LET built == InactiveRow_display(Display)
                     shown == IF subscribe_run THEN update_state(built, "no args") ELSE built
                 IN  /\ SetDisplay(shown)
                     /\ escaped' = IF shown.raised THEN "__init__" ELSE escaped
         ELSE /\ subs' = subs
              /\ sub_result' = "raised"
              /\ sub_errors' = sub_errors + 1
              /\ SetDisplay(on_subscribe_error(InactiveRow_display(Display)))
              /\ escaped' = escaped
    /\ UNCHANGED << device_vars, unsub_calls, device_cmd, action_errors, last_args >>

\* LightRow.remove, the slot of remove_button.clicked
remove ==
    /\ kind = "LightRow" /\ phase = "live"
    /\ remove_enabled
    /\ \E raises \in BOOLEAN :
         IF raises \/ ~has_remove
         THEN /\ action_errors < MaxLogged
              /\ action_errors' = action_errors + 1
              /\ device_cmd' = device_cmd
         ELSE /\ device_cmd' = "remove"
              /\ action_errors' = action_errors
    /\ UNCHANGED << device_vars, registry_vars, kind, phase, display_vars,
                    sub_errors, escaped, last_args >>

\* LightRow.insert, the slot of insert_button.clicked
insert ==
    /\ kind = "LightRow" /\ phase = "live"
    /\ insert_enabled
    /\ \E raises \in BOOLEAN :
         IF raises \/ ~has_insert
         THEN /\ action_errors < MaxLogged
              /\ action_errors' = action_errors + 1
              /\ device_cmd' = device_cmd
         ELSE /\ device_cmd' = "insert"
              /\ action_errors' = action_errors
    /\ UNCHANGED << device_vars, registry_vars, kind, phase, display_vars,
                    sub_errors, escaped, last_args >>

\* the device calls the registered callback
Notify ==
    /\ Callback \in subs
    /\ \E args \in NotifyArgs :
         LET shown == update_state(Display, args)
         IN  /\ SetDisplay(shown)
             /\ escaped' = IF shown.raised THEN "update_state" ELSE escaped
             /\ last_args' = args
    /\ UNCHANGED << device_vars, registry_vars, device_cmd, kind, phase, log_vars >>

\* device.clear_sub(cb) when it returns normally
device_clear_sub(registered, cb) == registered \ {cb}

LightRow_clear_sub_pass ==
    /\ kind = "LightRow" /\ phase = "live"
    /\ phase' = "torn"
    /\ unsub_calls' = unsub_calls + 1
    /\ UNCHANGED << device_vars, subs, sub_result, sub_calls, sub_run, device_cmd, kind,
                    display_vars, log_vars, escaped, last_args >>

\* LightRow.clear_sub: one call of device.clear_sub, outside any try
LightRow_clear_sub ==
    /\ kind = "LightRow" /\ phase = "live"
    /\ phase' = "torn"
    /\ unsub_calls' = unsub_calls + 1
    /\ \E raises \in BOOLEAN :
         IF raises
         THEN /\ subs' \in {subs, device_clear_sub(subs, Callback)}
              /\ escaped' = "clear_sub"
         ELSE /\ subs' = device_clear_sub(subs, Callback)
              /\ escaped' = escaped
    /\ UNCHANGED << device_vars, sub_result, sub_calls, sub_run, device_cmd, kind,
                    display_vars, log_vars, last_args >>

\* InactiveRow.clear_sub
InactiveRow_clear_sub ==
    /\ kind = "InactiveRow" /\ phase = "live"
    /\ phase' = "torn"
    /\ UNCHANGED << device_vars, registry_vars, device_cmd, kind, display_vars,
                    log_vars, escaped, last_args >>

\* one of the device's signals changes, or the device stops or starts
\* answering reads
DeviceChange ==
    /\ phase # "none"
    /\ \/ \E i \in SignalValues \ {inserted} :
            inserted' = i /\ UNCHANGED << removed, read_error >>
       \/ \E r \in SignalValues \ {removed} :
            removed' = r /\ UNCHANGED << inserted, read_error >>
       \/ read_error' = ~read_error /\ UNCHANGED << inserted, removed >>
    /\ UNCHANGED << has_insert, has_remove, icon, registry_vars, device_cmd, kind, phase,
                    display_vars, log_vars, escaped, last_args >>

Next ==
    \/ InactiveRow_init
    \/ LightRow_init
    \/ remove
    \/ insert
    \/ Notify
    \/ LightRow_clear_sub
    \/ InactiveRow_clear_sub
    \/ DeviceChange

Spec == Init /\ [][Next]_vars

\* -------------------------------------------- update_state on every state
\* A live, subscribed LightRow as LightRow.__init__ leaves it, for any device.
InitReflect ==
    /\ DeviceInit
    /\ subs = {Callback}
    /\ sub_result = "ok"
    /\ sub_calls = 1
    /\ sub_run = subscribe_run
    /\ unsub_calls = 0
    /\ kind = "LightRow"
    /\ phase = "live"
    /\ state_label_text = "Disconnected"
    /\ state_label_color = << 255, 0, 255 >>
    /\ symbol = symbol_for_device(icon)
    /\ drawing_color = NoPixmap
    /\ insert_enabled \in BOOLEAN
    /\ remove_enabled \in BOOLEAN
    /\ last_state = NoState
    /\ sub_errors = 0
    /\ action_errors = 0
    /\ escaped = "none"
    /\ last_args = "none"

\* the label, colour and button part of update_state, for each DeviceState
Reflect ==
    /\ \E st \in DeviceState :
         LET shown == show_state(Display, st)
         IN  /\ SetDisplay(shown)
             /\ escaped' = IF shown.raised THEN "update_state" ELSE escaped
    /\ UNCHANGED << device_vars, registry_vars, device_cmd, kind, phase, log_vars, last_args >>

NextReflect == Reflect

SpecReflect == InitReflect /\ [][NextReflect]_vars

\* ------------------------------------------------------------------ claims
\* C1: after update_state has handled a notification, the insert button is
\* enabled exactly when the device has an insert action and the state is not
\* Inserted, and the remove button exactly when the device has a remove
\* action and the state is not Removed; without the insert capability the
\* insert button is never enabled.
C1_ButtonPolicy ==
    last_state # NoState =>
        /\ insert_enabled = (has_insert /\ last_state # Inserted)
        /\ remove_enabled = (has_remove /\ last_state # Removed)
        /\ (~has_insert => ~insert_enabled)

C1_Witness ==
    /\ last_state = Inserted
    /\ has_insert /\ has_remove
    /\ ~insert_enabled /\ remove_enabled

\* the priority table of the classification, written out
C2_Table(ins, rem, err) ==
    IF err THEN Error
    ELSE IF ins \notin {"True", "False"} \/ rem \notin {"True", "False"} THEN Disconnected
    ELSE ( << "True", "True" >> :> Error @@ << "True", "False" >> :> Inserted @@
           << "False", "True" >> :> Removed @@ << "False", "False" >> :> Unknown )[<< ins, rem >>]

\* C2: the state update_state computes in a notification is one DeviceState
\* and is the one the priority table names for the signals read: Error on a
\* read error, else Disconnected when a signal is None or absent, else
\* (T,T) Error, (T,F) Inserted, (F,T) Removed, (F,F) Unknown.
C2_Classification ==
    [][Notify => /\ last_state' \in DeviceState
                 /\ last_state' = C2_Table(inserted, removed, read_error)]_vars

C2_Witness ==
    /\ last_state = Removed
    /\ inserted = "False" /\ removed = "True" /\ ~read_error
    /\ state_label_text = "Removed"

\* C3: no exception of a device call escapes a widget operation.
C3_NoEscape == escaped = "none"

C4_Registry ==
    /\ sub_calls <= 1
    /\ (kind = "LightRow" /\ phase # "none") => (sub_calls = 1 /\ ~sub_run)
    /\ (kind = "LightRow" /\ phase = "live") =>
          (subs = IF sub_result = "ok" THEN {Callback} ELSE {})
    /\ (sub_result = "raised") => (subs = {} /\ sub_errors = 1)
    /\ (phase # "torn") => unsub_calls = 0
    /\ (kind = "LightRow" /\ phase = "torn") =>
          (unsub_calls = 1 /\ (escaped # "clear_sub" => subs = {}))
    /\ (sub_result = "ok" /\ phase = "live" /\ last_args = "none") => last_state = NoState

C4_Step ==
    (phase # "none") =>
        /\ sub_calls' = sub_calls
        /\ subs' \subseteq subs
        /\ (subs = {} => UNCHANGED display_vars)

C6_NotSticky ==
    [][Notify => /\ last_state' = find_device_state(inserted, removed, read_error)
                 /\ state_label_text' = StateName(last_state')
                 /\ state_label_color' = to_stylesheet_color(state_colors[last_state' + 1])]_vars

C6_Witness ==
    /\ last_state = Inserted
    /\ last_args = "value=removed"
    /\ state_label_text = "Inserted"

\* C7: the colour table has one entry per DeviceState variant, and the lookup
\* in update_state never fails for any state.
C7_ColorTable ==
    /\ Len(state_colors) = Cardinality(DeviceState)
    /\ escaped # "update_state"
    /\ last_state # NoState =>
          state_label_color = to_stylesheet_color(state_colors[last_state + 1])

C7_Witness ==
    /\ last_state = Error
    /\ state_label_color = << 255, 0, 255 >>

\* C8: when subscribe fails at construction, construction completes, the
\* failure is logged once, and the label stays "Disconnected" in the colour
\* set at construction whatever the device and the buttons do afterwards.
C8_SubscribeFailure ==
    sub_result = "raised" =>
        /\ phase # "none"
        /\ sub_errors = 1
        /\ state_label_text = "Disconnected"
        /\ state_label_color = << 255, 0, 255 >>
        /\ last_state = NoState
        /\ escaped # "__init__"

C8_Witness ==
    /\ sub_result = "raised"
    /\ device_cmd = "insert"
    /\ find_device_state(inserted, removed, read_error) = Inserted
    /\ state_label_text = "Disconnected"

\* C9: symbol_for_device gives "fa.square" for a device without an _icon
\* attribute and the attribute's value, whatever it is, otherwise.
C9_Symbol ==
    phase # "none" =>
        symbol = IF icon = NoIcon THEN "fa.square" ELSE icon

C9_Witness ==
    /\ phase # "none"
    /\ icon = "" /\ symbol = ""

\* C10 as stated: Disconnected (3) and PartiallyInserted (4) are displayed
\* with the same label "Disconnected" and the same colour.
C10_Original ==
    last_state \in {Disconnected, PartiallyInserted} =>
        /\ state_label_text = "Disconnected"
        /\ state_label_color = to_stylesheet_color(state_colors[Disconnected + 1])
        /\ state_label_color = to_stylesheet_color(state_colors[PartiallyInserted + 1])

\* C10 (amended): update_state labels both Disconnected (3) and
\* PartiallyInserted (4) "Disconnected", but in different colours: ordinal 3
\* in rgb(255, 215, 0), the colour of Unknown, and ordinal 4 in
\* rgb(255, 0, 255), the colour of Error.
C10_SameLabel ==
    /\ last_state \in {Disconnected, PartiallyInserted} =>
          state_label_text = "Disconnected"
    /\ last_state = Disconnected =>
          /\ state_label_color = << 255, 215, 0 >>
          /\ state_label_color = to_stylesheet_color(state_colors[Unknown + 1])
    /\ last_state = PartiallyInserted =>
          /\ state_label_color = << 255, 0, 255 >>
          /\ state_label_color = to_stylesheet_color(state_colors[Error + 1])

C10_Witness ==
    /\ last_state = PartiallyInserted
    /\ state_label_text = "Disconnected"
    /\ state_label_color = << 255, 0, 255 >>

====
